---- MODULE Spec2Model ----
(***************************************************************************)
(* PDF Metadata Updater (src/src/PDF-Metadata-Updater.py).                 *)
(*                                                                         *)
(* One execution of the script is a sequential pipeline: the module-level  *)
(* imports, the guarded import of __main__, create_folders, create_config  *)
(* when config.ini is absent, update_config (the Producer step and the     *)
(* Creator step), then the batch loop over os.listdir(input_folder) that   *)
(* calls process_pdf for every name ending in ".pdf".                      *)
(*                                                                         *)
(* Strings the program inspects character by character (file names, the    *)
(* values typed by the operator, the values of config.ini) are sequences   *)
(* of one-character strings; the answers to the y/n prompt and the option  *)
(* names are atoms that only pass through str.lower().                     *)
(*                                                                         *)
(* Spec is one execution from any config.ini, SpecBatch one execution from *)
(* any input folder, SpecRuns a sequence of executions over one disk.      *)
(***************************************************************************)
EXTENDS Naturals, Sequences, FiniteSets, TLC

VARIABLES
    pc,             \* position of the running script
    libAvailable,   \* whether PyPDF2 can be imported
    printedInstall, \* the "pip install PyPDF2" message was printed
    dirs,           \* the directories that exist beside the program
    diskConfig,     \* config/config.ini on disk
    input_folder,    \* input/: file name -> number of pages of its document
    output_folder,   \* output/: file name -> the document written there
    config,         \* the ConfigParser object of __main__
    config_file,    \* what update_config's parameter config_file is bound to
    producer,       \* local variable producer of update_config
    creator,        \* local variable creator of update_config
    answer,         \* what the operator typed at each "use this value?" prompt
    changed,        \* the options config.set has set in this run
    wrote,          \* the options whose write by update_config succeeded
    listing,        \* the result of os.listdir(input_folder)
    pos,            \* index in listing of the file the loop is at
    error,          \* the uncaught exception that ended the run, or "none"
    failedAt,       \* the step that raised it, or "none"
    run,            \* number of the current execution of the script
    diskAtStart,    \* config.ini as it was when the current run started
    outAtStart      \* output/ as it was when the current run started

vars == <<pc, libAvailable, printedInstall, dirs, diskConfig, input_folder,
          output_folder, config, config_file, producer, creator, answer,
          changed, wrote, listing, pos, error, failedAt, run, diskAtStart,
          outAtStart>>

\* What no step of one execution changes.
runVars == <<libAvailable, input_folder, run, diskAtStart, outAtStart>>

\* The local state of update_config.
updateVars == <<config_file, producer, creator, answer, changed, wrote>>

\* The state of the batch loop.
loopVars == <<listing, pos>>

----------------------------------------------------------------------------
(* Bounds of the model.                                                    *)

\* Largest number of pages of a document of the input folder.
MaxPages == 2

\* Largest number of files of an input folder.
MaxFiles == 3

\* Largest number of executions of the script in a sequence of runs.
MaxRuns == 2

\* The file names an input folder may hold.
Names ==
    { <<"a", ".", "p", "d", "f">>,
      <<"b", ".", "p", "d", "f">>,
      <<"c", ".", "p", "d", "f">>,
      <<"a", ".", "P", "D", "F">>,
      <<"n", ".", "t", "x", "t">> }

\* The names of the worked example: a.pdf and a text file.
ExampleNames ==
    { <<"a", ".", "p", "d", "f">>, <<"n", ".", "t", "x", "t">> }

\* What the operator may type at an "Enter the value for ..." prompt:
\* nothing, a blank, plain values, a value with a leading blank, a lone
\* percent sign and an escaped percent sign.
InputValues ==
    { <<>>, <<" ">>, <<"a">>, <<"b">>, <<" ", "a">>, <<"%">>, <<"%", "%">> }

\* What the operator may type at a "Do you want to use this value? (y/n)"
\* prompt.
Answers == {"y", "n", "N"}

----------------------------------------------------------------------------
(* Library functions, as the code uses them.                               *)

\* str.lower() on the atoms that pass through it.
Lower(s) ==
    CASE s = "N" -> "n"
      [] s = "Y" -> "y"
      [] s = "Producer" -> "producer"
      [] s = "Creator" -> "creator"
      [] OTHER -> s

\* str.endswith(suffix).
EndsWith(s, suffix) ==
    /\ Len(s) >= Len(suffix)
    /\ SubSeq(s, Len(s) - Len(suffix) + 1, Len(s)) = suffix

\* The test of the batch loop had it ignored the case of the suffix
\* (original_file.lower().endswith(".pdf")).
IsPdfNameAnyCase(name) ==
    \/ EndsWith(name, <<".", "p", "d", "f">>)
    \/ EndsWith(name, <<".", "P", "D", "F">>)

\* The test of the batch loop: original_file.endswith(".pdf").
IsPdfName(name) == EndsWith(name, <<".", "p", "d", "f">>)

\* str.strip(), which ConfigParser.read applies to every value it parses.
RECURSIVE LStrip(_)
LStrip(s) ==
    IF s # <<>> /\ Head(s) = " " THEN LStrip(Tail(s)) ELSE s

RECURSIVE RStrip(_)
RStrip(s) ==
    IF s # <<>> /\ s[Len(s)] = " " THEN RStrip(SubSeq(s, 1, Len(s) - 1)) ELSE s

Strip(s) == RStrip(LStrip(s))

\* BasicInterpolation.before_set: value.replace('%%', '') leaves no '%'.
RECURSIVE RemoveEscapes(_)
RemoveEscapes(s) ==
    IF s = <<>> THEN <<>>
    ELSE IF Len(s) >= 2 /\ s[1] = "%" /\ s[2] = "%"
         THEN RemoveEscapes(Tail(Tail(s)))
         ELSE <<Head(s)>> \o RemoveEscapes(Tail(s))

ValidForSet(s) == \A i \in 1..Len(RemoveEscapes(s)) : RemoveEscapes(s)[i] # "%"

\* BasicInterpolation.before_get: '%%' becomes '%'; a '%' followed by
\* anything else raises InterpolationSyntaxError.
RECURSIVE CanInterpolate(_)
CanInterpolate(s) ==
    IF s = <<>> THEN TRUE
    ELSE IF Head(s) # "%" THEN CanInterpolate(Tail(s))
    ELSE /\ Len(s) >= 2
         /\ s[2] = "%"
         /\ CanInterpolate(Tail(Tail(s)))

RECURSIVE Interpolate(_)
Interpolate(s) ==
    IF s = <<>> THEN <<>>
    ELSE IF Head(s) # "%" THEN <<Head(s)>> \o Interpolate(Tail(s))
    ELSE <<"%">> \o Interpolate(Tail(Tail(s)))

----------------------------------------------------------------------------
(* The ConfigParser object and config.ini.                                 *)

Keys == {Lower("Producer"), Lower("Creator")}

NoOptions == [k \in {} |-> <<>>]

\* ConfigParser(): no section, no option.
NewConfigParser == [section |-> FALSE, opts |-> NoOptions]

\* config.add_section('Metadata').
AddSection(cfg) == [cfg EXCEPT !.section = TRUE]

\* The parser holds the option: config.get does not take the fallback.
HasOption(cfg, key) == cfg.section /\ Lower(key) \in DOMAIN cfg.opts

\* config.get raises InterpolationSyntaxError for this option.
GetRaises(cfg, key) ==
    HasOption(cfg, key) /\ ~CanInterpolate(cfg.opts[Lower(key)])

\* config.get('Metadata', key, fallback=""): the fallback covers a missing
\* section and a missing option.
ConfigGet(cfg, key) ==
    IF HasOption(cfg, key) THEN Interpolate(cfg.opts[Lower(key)]) ELSE <<>>

\* config.set('Metadata', key, value) raises NoSectionError or ValueError.
SetError(cfg, value) ==
    IF ~cfg.section THEN "NoSectionError"
    ELSE IF ~ValidForSet(value) THEN "ValueError"
    ELSE "none"

\* config.set had it replaced the options of the section by the one set.
ConfigSetDropsOthers(cfg, key, value) ==
    [cfg EXCEPT !.opts = [k \in {Lower(key)} |-> value]]

\* config.set('Metadata', key, value) when it does not raise.
ConfigSet(cfg, key, value) ==
    [cfg EXCEPT !.opts =
        [k \in DOMAIN cfg.opts \cup {Lower(key)} |->
            IF k = Lower(key) THEN value ELSE cfg.opts[k]]]

\* No config.ini in the config folder.
AbsentFile == [kind |-> "absent", section |-> FALSE, opts |-> NoOptions]

\* with open(path, 'w') as f: config.write(f): the whole file is replaced
\* by the section header and every option of the parser, as held.
ConfigWrite(cfg) == [kind |-> "ini", section |-> cfg.section, opts |-> cfg.opts]

\* config.read(path) of a well-formed file: the file's section and options
\* are added to the parser, every value stripped.
ConfigRead(cfg, file) ==
    [section |-> cfg.section \/ file.section,
     opts |-> [k \in DOMAIN cfg.opts \cup DOMAIN file.opts |->
                  IF k \in DOMAIN file.opts THEN Strip(file.opts[k])
                  ELSE cfg.opts[k]]]

\* The value a reader of config.ini finds for a key ("" when there is none).
Stored(file, key) ==
    IF file.kind = "ini" /\ file.section /\ Lower(key) \in DOMAIN file.opts
    THEN Strip(file.opts[Lower(key)])
    ELSE <<>>

\* The contents config.ini may have when the script starts: no file, a file
\* ConfigParser cannot parse, a file without the Metadata section, and the
\* section with any of the two options at any value.
OptionSets ==
    UNION { [K -> InputValues] : K \in SUBSET Keys }

DiskConfigs ==
    { AbsentFile,
      [kind |-> "garbled", section |-> FALSE, opts |-> NoOptions],
      [kind |-> "ini", section |-> FALSE, opts |-> NoOptions] }
    \cup { [kind |-> "ini", section |-> TRUE, opts |-> o] : o \in OptionSets }

\* config.ini as an earlier run left it: Producer = a, Creator = b.
Configured ==
    [kind |-> "ini", section |-> TRUE,
     opts |-> [k \in Keys |-> IF k = Lower("Producer") THEN <<"a">> ELSE <<"b">>]]

----------------------------------------------------------------------------
(* Folders and documents.                                                  *)

AllDirs == {"output", "input", "config"}

NoFiles == [n \in {} |-> 0]

\* The input folders over a set of names: at most MaxFiles of them, every
\* ".pdf" name a document of 0..MaxPages pages (the content of the other
\* files is never read).
FoldersOver(names) ==
    UNION { { f \in [S -> 0..MaxPages] :
                \A n \in S : ~IsPdfName(n) => f[n] = 0 } :
            S \in { T \in SUBSET names : Cardinality(T) <= MaxFiles } }

\* The orders os.listdir may return the names of a folder in.
Listings(folder) ==
    { s \in [1..Cardinality(DOMAIN folder) -> DOMAIN folder] :
        \A i, j \in DOMAIN s : i # j => s[i] # s[j] }

\* The loop of process_pdf: for page_num in range(len(pdf2.pages)) the page,
\* merged with itself, is added to the writer.
RECURSIVE CopyPages(_, _)
CopyPages(n, page_num) ==
    IF page_num >= n THEN <<>>
    ELSE <<page_num>> \o CopyPages(n, page_num + 1)

\* The document process_pdf writes for a document of n pages.
Updated(n, cfg) ==
    [pages    |-> CopyPages(n, 0),
     Producer |-> ConfigGet(cfg, "Producer"),
     Creator  |-> ConfigGet(cfg, "Creator"),
     complete |-> TRUE]

\* What open(output_file_path, 'wb') leaves when updater.write then fails.
Truncated ==
    [pages |-> <<>>, Producer |-> <<>>, Creator |-> <<>>, complete |-> FALSE]

\* open(os.path.join(output_folder, name), 'wb') and the write: the file of
\* that name is created or replaced.
PutFile(folder, name, doc) ==
    [n \in DOMAIN folder \cup {name} |-> IF n = name THEN doc ELSE folder[n]]

----------------------------------------------------------------------------
(* The state before the script is first started.                           *)

\* A process of the script that has not run any statement, over an output
\* folder without files.
Started ==
    /\ pc = "import"
    /\ printedInstall = FALSE
    /\ config = NewConfigParser
    /\ config_file = "path"
    /\ producer = <<>>
    /\ creator = <<>>
    /\ answer = [k \in Keys |-> "none"]
    /\ changed = {}
    /\ wrote = {}
    /\ listing = <<>>
    /\ pos = 0
    /\ error = "none"
    /\ failedAt = "none"
    /\ run = 1
    /\ libAvailable \in BOOLEAN
    /\ dirs \in {{}, AllDirs}
    /\ output_folder = NoFiles
    /\ outAtStart = output_folder

\* Any config.ini, and the input folders over the names of the worked
\* example.  Before the first run there are no folders and no files.
Init ==
    /\ Started
    /\ diskConfig \in DiskConfigs
    /\ input_folder \in FoldersOver(ExampleNames)
    /\ dirs = {} => diskConfig = AbsentFile /\ input_folder = NoFiles
    /\ diskAtStart = diskConfig

----------------------------------------------------------------------------
(* The steps of the script.                                                *)

\* An exception nothing catches: the interpreter prints the traceback and
\* the process ends.
Raise(exc) ==
    /\ pc' = "crashed"
    /\ error' = exc
    /\ failedAt' = pc

Goto(next) ==
    /\ pc' = next
    /\ UNCHANGED <<error, failedAt>>

\* Lines 40-42: the module-level imports.
ModuleImport ==
    /\ pc = "import"
    /\ IF libAvailable THEN Goto("main") ELSE Raise("ModuleNotFoundError")
    /\ UNCHANGED <<printedInstall, dirs, diskConfig, output_folder, config,
                   updateVars, loopVars, runVars>>

\* Lines 168-174: the guarded import of __main__.
MainImport ==
    /\ pc = "main"
    /\ IF libAvailable
       THEN Goto("folders") /\ printedInstall' = printedInstall
       ELSE Goto("exited") /\ printedInstall' = TRUE
    /\ UNCHANGED <<dirs, diskConfig, output_folder, config, updateVars,
                   loopVars, runVars>>

\* Lines 44-64 and 176: create_folders.
CreateFolders ==
    /\ pc = "folders"
    /\ dirs' = dirs \cup AllDirs
    /\ Goto("config")
    /\ UNCHANGED <<printedInstall, diskConfig, output_folder, config,
                   updateVars, loopVars, runVars>>

\* Lines 178-183 and 66-77: config = ConfigParser(), and create_config when
\* config.ini is not a file.  create_config rebinds its own parameter only.
CreateConfig ==
    /\ pc = "config"
    /\ IF diskConfig.kind = "absent"
       THEN /\ config' = AddSection(NewConfigParser)
            /\ diskConfig' = ConfigWrite(config')
       ELSE /\ config' = NewConfigParser
            /\ diskConfig' = diskConfig
    /\ Goto("read")
    /\ UNCHANGED <<printedInstall, dirs, output_folder, updateVars, loopVars,
                   runVars>>

\* Lines 88-91: config.read and the two config.get calls of update_config.
ReadConfig ==
    /\ pc = "read"
    /\ IF diskConfig.kind = "garbled"
       THEN /\ Raise("ParsingError")
            /\ UNCHANGED <<config, producer, creator>>
       ELSE /\ config' = ConfigRead(config, diskConfig)
            /\ IF GetRaises(config', "Producer")
               THEN /\ Raise("InterpolationSyntaxError")
                    /\ UNCHANGED <<producer, creator>>
               ELSE /\ producer' = ConfigGet(config', "Producer")
                    /\ IF GetRaises(config', "Creator")
                       THEN /\ Raise("InterpolationSyntaxError")
                            /\ creator' = creator
                       ELSE /\ creator' = ConfigGet(config', "Creator")
                            /\ Goto("producer")
    /\ UNCHANGED <<printedInstall, dirs, diskConfig, output_folder,
                   config_file, answer, changed, wrote, loopVars, runVars>>

\* The same two statements had the with statement bound the file object to
\* a name of its own ("with open(config_file, 'w') as f").
SetAndWriteKeepsPath(key, value, next) ==
    IF SetError(config, value) # "none"
    THEN /\ Raise(SetError(config, value))
         /\ UNCHANGED <<config, changed, diskConfig, config_file, wrote>>
    ELSE /\ config' = ConfigSet(config, key, value)
         /\ changed' = changed \cup {Lower(key)}
         /\ diskConfig' = ConfigWrite(config')
         /\ config_file' = config_file
         /\ wrote' = wrote \cup {Lower(key)}
         /\ Goto(next)

\* config.set('Metadata', key, value) followed by "with open(config_file,
\* 'w') as config_file: config.write(config_file)".  The set may raise.  The
\* with statement rebinds update_config's parameter config_file to the file
\* object, so a later open(config_file, 'w') is given a file object in place
\* of a path and raises TypeError.
SetAndWrite(key, value, next) ==
    IF SetError(config, value) # "none"
    THEN /\ Raise(SetError(config, value))
         /\ UNCHANGED <<config, changed, diskConfig, config_file, wrote>>
    ELSE /\ config' = ConfigSet(config, key, value)
         /\ changed' = changed \cup {Lower(key)}
         /\ IF config_file # "path"
            THEN /\ Raise("TypeError")
                 /\ UNCHANGED <<diskConfig, config_file, wrote>>
            ELSE /\ diskConfig' = ConfigWrite(config')
                 /\ config_file' = "fileobj"
                 /\ wrote' = wrote \cup {Lower(key)}
                 /\ Goto(next)

\* Lines 93-110: the Producer step of update_config.
ProducerStep ==
    /\ pc = "producer"
    /\ IF producer # <<>>
       THEN \E a \in Answers :
              /\ answer' = [answer EXCEPT ![Lower("Producer")] = a]
              /\ IF Lower(a) = "n"
                 THEN \E v \in InputValues :
                        /\ producer' = v
                        /\ SetAndWrite("Producer", v, "creator")
                 ELSE /\ Goto("creator")
                      /\ UNCHANGED <<producer, config, changed, diskConfig,
                                     config_file, wrote>>
       ELSE \E v \in InputValues :
              /\ producer' = v
              /\ answer' = answer
              /\ SetAndWrite("Producer", v, "creator")
    /\ UNCHANGED <<printedInstall, dirs, output_folder, creator, loopVars,
                   runVars>>

\* Lines 112-129: the Creator step of update_config.
CreatorStep ==
    /\ pc = "creator"
    /\ IF creator # <<>>
       THEN \E a \in Answers :
              /\ answer' = [answer EXCEPT ![Lower("Creator")] = a]
              /\ IF Lower(a) = "n"
                 THEN \E v \in InputValues :
                        /\ creator' = v
                        /\ SetAndWrite("Creator", v, "listdir")
                 ELSE /\ Goto("listdir")
                      /\ UNCHANGED <<creator, config, changed, diskConfig,
                                     config_file, wrote>>
       ELSE \E v \in InputValues :
              /\ creator' = v
              /\ answer' = answer
              /\ SetAndWrite("Creator", v, "listdir")
    /\ UNCHANGED <<printedInstall, dirs, output_folder, producer, loopVars,
                   runVars>>

\* Line 188: os.listdir(input_folder), in any order.
ListDir ==
    /\ pc = "listdir"
    /\ listing' \in Listings(input_folder)
    /\ pos' = 1
    /\ Goto("loop")
    /\ UNCHANGED <<printedInstall, dirs, diskConfig, output_folder, config,
                   updateVars, runVars>>

\* The loop of line 188 is at a file of the listing.
AtFile == pc = "loop" /\ pos <= Len(listing)

\* Line 189, test false: the name does not end with ".pdf".
SkipFile ==
    /\ AtFile
    /\ ~IsPdfName(listing[pos])
    /\ pos' = pos + 1
    /\ UNCHANGED <<pc, error, failedAt, printedInstall, dirs, diskConfig,
                   output_folder, config, updateVars, listing, runVars>>

\* Lines 189-191 and 131-166: process_pdf writes the updated document under
\* the original name.
ProcessPdf ==
    /\ AtFile
    /\ IsPdfName(listing[pos])
    /\ output_folder' = PutFile(output_folder, listing[pos],
                               Updated(input_folder[listing[pos]], config))
    /\ pos' = pos + 1
    /\ UNCHANGED <<pc, error, failedAt, printedInstall, dirs, diskConfig,
                   config, updateVars, listing, runVars>>

\* The same failure had the loop caught it and gone on to the next file.
ProcessPdfReadFailsCaught ==
    /\ AtFile
    /\ IsPdfName(listing[pos])
    /\ \E exc \in {"OSError", "PdfReadError"} :
         /\ error' = exc
         /\ failedAt' = pc
    /\ pos' = pos + 1
    /\ UNCHANGED <<pc, printedInstall, dirs, diskConfig, output_folder, config,
                   updateVars, listing, runVars>>

\* Lines 144-151: opening or parsing the input raises; nothing catches it.
ProcessPdfReadFails ==
    /\ AtFile
    /\ IsPdfName(listing[pos])
    /\ \E exc \in {"OSError", "PdfReadError"} : Raise(exc)
    /\ UNCHANGED <<printedInstall, dirs, diskConfig, output_folder, config,
                   updateVars, loopVars, runVars>>

\* Lines 165-166: open(output_file_path, 'wb') has created or truncated the
\* output file when updater.write raises; nothing catches it.
ProcessPdfWriteFails ==
    /\ AtFile
    /\ IsPdfName(listing[pos])
    /\ output_folder' = PutFile(output_folder, listing[pos], Truncated)
    /\ Raise("OSError")
    /\ UNCHANGED <<printedInstall, dirs, diskConfig, config, updateVars,
                   loopVars, runVars>>

\* Line 188, listing exhausted: the script ends.
LoopEnd ==
    /\ pc = "loop"
    /\ pos > Len(listing)
    /\ Goto("done")
    /\ UNCHANGED <<printedInstall, dirs, diskConfig, output_folder, config,
                   updateVars, loopVars, runVars>>

Next ==
    \/ ModuleImport
    \/ MainImport
    \/ CreateFolders
    \/ CreateConfig
    \/ ReadConfig
    \/ ProducerStep
    \/ CreatorStep
    \/ ListDir
    \/ SkipFile
    \/ ProcessPdf
    \/ ProcessPdfReadFails
    \/ ProcessPdfWriteFails
    \/ LoopEnd

\* One execution of the script, from any config.ini.
Spec == Init /\ [][Next]_vars

\* One execution of the script, from any input folder: config.ini is absent
\* or holds both values.
InitBatch ==
    /\ Started
    /\ diskConfig \in {AbsentFile, Configured}
    /\ input_folder \in FoldersOver(Names)
    /\ dirs = {} => diskConfig = AbsentFile /\ input_folder = NoFiles
    /\ diskAtStart = diskConfig

SpecBatch == InitBatch /\ [][Next]_vars

----------------------------------------------------------------------------
(* A sequence of executions of the script over the same disk.              *)

\* The process has ended: normally, by exit(), or by an uncaught exception.
Ended == pc \in {"done", "exited", "crashed"}

\* The operator starts the script again (start.py runs it as a new process):
\* the process state is fresh, the disk is as the last run left it.
NewRun ==
    /\ Ended
    /\ run < MaxRuns
    /\ run' = run + 1
    /\ pc' = "import"
    /\ printedInstall' = FALSE
    /\ config' = NewConfigParser
    /\ config_file' = "path"
    /\ producer' = <<>>
    /\ creator' = <<>>
    /\ answer' = [k \in Keys |-> "none"]
    /\ changed' = {}
    /\ wrote' = {}
    /\ listing' = <<>>
    /\ pos' = 0
    /\ error' = "none"
    /\ failedAt' = "none"
    /\ diskAtStart' = diskConfig
    /\ outAtStart' = output_folder
    /\ UNCHANGED <<libAvailable, dirs, diskConfig, input_folder, output_folder>>

\* The first of a sequence of runs starts from any config.ini and the
\* folder of the worked example: a.pdf (2 pages) and a text file.
InitRuns ==
    /\ Started
    /\ diskConfig \in DiskConfigs
    /\ input_folder = [n \in ExampleNames |-> IF IsPdfName(n) THEN 2 ELSE 0]
    /\ dirs = AllDirs
    /\ diskAtStart = diskConfig

NextRuns == Next \/ NewRun

SpecRuns == InitRuns /\ [][NextRuns]_vars

----------------------------------------------------------------------------
(* Where the run is.                                                       *)

\* The Producer step of update_config has been executed (to its end or to
\* an exception).
ProducerStepTaken ==
    \/ pc \in {"creator", "listdir", "loop", "done"}
    \/ pc = "crashed" /\ failedAt \in {"producer", "creator", "loop"}

\* The Creator step of update_config has been executed.
CreatorStepTaken ==
    \/ pc \in {"listdir", "loop", "done"}
    \/ pc = "crashed" /\ failedAt \in {"creator", "loop"}

\* update_config has returned normally.
UpdateReturned ==
    \/ pc \in {"listdir", "loop", "done"}
    \/ pc = "crashed" /\ failedAt = "loop"

\* The operator answered 'n' or 'N' at the confirmation prompt of the key.
Declined(key) == answer[Lower(key)] \in {"n", "N"}

\* The names of Names that end with the suffix ".pdf", listed by hand.
PdfNames ==
    { <<"a", ".", "p", "d", "f">>,
      <<"b", ".", "p", "d", "f">>,
      <<"c", ".", "p", "d", "f">> }

----------------------------------------------------------------------------
(* The claims.                                                             *)

\* C1: starting without config.ini, once the run has been through both steps
\* of update_config the file on disk has the Metadata section and both
\* keys, Producer and Creator, holding the values the operator entered.
C1_FirstRunStoresBothValues ==
    (diskAtStart.kind = "absent" /\ CreatorStepTaken) =>
        /\ diskConfig.kind = "ini"
        /\ diskConfig.section
        /\ DOMAIN diskConfig.opts = Keys
        /\ Stored(diskConfig, "Producer") = Strip(producer)
        /\ Stored(diskConfig, "Creator") = Strip(creator)

\* C2: whenever update_config has returned normally, the Producer and the
\* Creator held in the config are both non-empty.
C2_ResolvedValuesNonEmpty ==
    UpdateReturned =>
        /\ ConfigGet(config, "Producer") # <<>>
        /\ ConfigGet(config, "Creator") # <<>>

\* C3: with a non-empty Producer X stored, once the operator has answered
\* the prompt: an answer other than 'n'/'N' leaves X stored and the Producer
\* step writes nothing; the answer 'n'/'N' followed by Y leaves Y stored.
C3_ProducerKeptOrReplaced ==
    answer[Lower("Producer")] # "none" =>
        IF Declined("Producer")
        THEN Stored(diskConfig, "Producer") = Strip(producer)
        ELSE /\ Stored(diskConfig, "Producer") = Stored(diskAtStart, "Producer")
             /\ Lower("Producer") \notin wrote

\* C4: after a run that went through the whole listing, the names of the
\* output folder are exactly the input names with the suffix ".pdf", each
\* holding the document made from the input of the same name; the other
\* names, and an empty input folder, give no output.
C4_OutputIsThePdfNames ==
    pc = "done" =>
        /\ DOMAIN output_folder = DOMAIN input_folder \cap PdfNames
        /\ \A n \in DOMAIN output_folder :
             /\ output_folder[n].complete
             /\ Len(output_folder[n].pages) = input_folder[n]

\* C4 witness: a finished run over a.pdf, a.PDF and n.txt wrote a.pdf alone.
C4_Witness ==
    /\ pc = "done"
    /\ DOMAIN input_folder = { <<"a", ".", "p", "d", "f">>,
                              <<"a", ".", "P", "D", "F">>,
                              <<"n", ".", "t", "x", "t">> }
    /\ DOMAIN output_folder = { <<"a", ".", "p", "d", "f">> }

\* C5: every document written to the output folder has as many pages as
\* its input, and its Producer and Creator are the values update_config
\* resolved: the values the operator kept or entered.
C5_OutputMatchesResolved ==
    \A n \in DOMAIN output_folder :
        output_folder[n].complete =>
            /\ Len(output_folder[n].pages) = input_folder[n]
            /\ output_folder[n].Producer = producer
            /\ output_folder[n].Creator = creator

\* C6: without PyPDF2 the run ends by exit() after the install message,
\* with no uncaught exception, no folder created, config.ini untouched and
\* no file written.
C6_MissingLibraryExitsCleanly ==
    (~libAvailable /\ pc \in {"done", "exited", "crashed"}) =>
        /\ pc = "exited"
        /\ printedInstall
        /\ error = "none"
        /\ diskConfig = diskAtStart
        /\ output_folder = outAtStart

\* C7: once a step of update_config has changed a value, the file on disk
\* has been rewritten with it: every changed option has been written, and
\* the file holds the options of the config as they are.
C7_EveryChangeIsWritten ==
    changed # {} =>
        /\ changed \subseteq wrote
        /\ diskConfig = ConfigWrite(config)

\* C8: in every run of a sequence of runs, a field with a non-empty stored
\* value at the start of the run has another stored value only if the
\* operator answered 'n' at the prompt of that field in that run.
C8_StoredValuePersists ==
    \A k \in {"Producer", "Creator"} :
        ( /\ Stored(diskAtStart, k) # <<>>
          /\ Stored(diskConfig, k) # Stored(diskAtStart, k) )
        => Declined(k)

\* C8 witness: a second run has ended in which the Producer was replaced and
\* written while the stored Creator stayed what it was.
C8_Witness ==
    /\ run = 2
    /\ pc \in {"done", "crashed"}
    /\ Stored(diskAtStart, "Producer") # <<>>
    /\ Stored(diskAtStart, "Creator") # <<>>
    /\ Declined("Producer")
    /\ Lower("Producer") \in wrote
    /\ Stored(diskConfig, "Producer") # Stored(diskAtStart, "Producer")
    /\ Stored(diskConfig, "Creator") = Stored(diskAtStart, "Creator")

\* C9: an error raised while a file is processed is not caught and ends the
\* run at that file: no step follows, no file later in the listing has been
\* written, and the documents written for the earlier ".pdf" files of the
\* listing are still in the output folder.
C9_FailureEndsTheRun ==
    /\ error # "none" => pc = "crashed"
    /\ (pc = "crashed" /\ failedAt = "loop") =>
        /\ ~ENABLED Next
        /\ \A i \in 1..Len(listing) :
            /\ i > pos => listing[i] \notin DOMAIN output_folder
            /\ (i < pos /\ listing[i] \in PdfNames) =>
                 /\ listing[i] \in DOMAIN output_folder
                 /\ output_folder[listing[i]].complete
                 /\ Len(output_folder[listing[i]].pages)
                      = input_folder[listing[i]]

\* C9 witness: the second of three ".pdf" files failed; the first has been
\* written, the third has not.
C9_Witness ==
    /\ pc = "crashed"
    /\ failedAt = "loop"
    /\ Len(listing) = 3
    /\ pos = 2
    /\ \A i \in 1..3 : listing[i] \in PdfNames
    /\ listing[1] \in DOMAIN output_folder
    /\ listing[3] \notin DOMAIN output_folder

\* The Creator step took a path that sets and writes the Creator: the stored
\* value was empty, or the operator answered 'n'.
CreatorWritePath ==
    /\ CreatorStepTaken
    /\ answer[Lower("Creator")] = "none" \/ Declined("Creator")

\* C10: at most one write of update_config succeeds in a run; when the
\* Producer step has written the file and the Creator step has to write too,
\* the Creator step raises (TypeError from open, unless config.set raised
\* first), the run ends there with no file listed or processed and the
\* output folder as it was, and the file on disk holds the new Producer and
\* the Creator it held before.
C10_SecondWriteFails ==
    /\ Cardinality(wrote) <= 1
    /\ (Lower("Producer") \in wrote /\ CreatorWritePath) =>
        /\ pc = "crashed"
        /\ failedAt = "creator"
        /\ error = IF ValidForSet(creator) THEN "TypeError" ELSE "ValueError"
        /\ listing = <<>>
        /\ output_folder = outAtStart
        /\ diskConfig.opts[Lower("Producer")] = producer
        /\ Lower("Creator") \notin wrote
        /\ Stored(diskConfig, "Creator") = Stored(diskAtStart, "Creator")

\* C10 witness: both values were replaced; the Producer was written, the
\* Creator write raised TypeError.
C10_Witness ==
    /\ pc = "crashed"
    /\ error = "TypeError"
    /\ Declined("Producer")
    /\ Declined("Creator")
    /\ Lower("Producer") \in wrote
    /\ producer = <<"b">>
    /\ creator = <<"a">>
    /\ Stored(diskConfig, "Producer") = <<"b">>
    /\ Stored(diskConfig, "Creator") # <<"a">>

====
